---- MODULE Spec2Model ----
(***************************************************************************)
(* Contest / assignment participation and leaderboard aggregation of the   *)
(* Contest-Backend route handlers.                                         *)
(*                                                                         *)
(* One contest document and one assignment document are modelled.  Time is *)
(* counted in minutes: the handlers compute                                *)
(*   endTime = startTime.getTime() + duration * 60000   (milliseconds)     *)
(* and compare it with new Date(); with the clock in minutes that is       *)
(* startTime + duration.  Every timestamp is >= 1, so the number 0 that    *)
(* JavaScript gives to a null date in "a.lastSubmission - b.lastSubmission"*)
(* is never the value of a real timestamp.                                 *)
(*                                                                         *)
(* Documents are records holding exactly the fields that the handlers of   *)
(* the repository store in them (and that the schemas declare).  Reading a *)
(* field a document does not have gives undefined, and calling a method on *)
(* undefined throws; the handlers' try/catch turns that into a 500 answer  *)
(* and the document is not saved.                                          *)
(*                                                                         *)
(* The route files hold several routers.  The lists they keep on a contest *)
(* are separate variables: participants (POST /:id/start, /submit,         *)
(* /complete), registeredStudents and activeParticipants (the             *)
(* /student/contests/... routes), joined (POST /:id/join, whose entries    *)
(* carry user and joinedAt), and the assignment's submissions.             *)
(***************************************************************************)
EXTENDS Integers, Sequences, FiniteSets, TLC

\* ------------------------------------------------------------------ bounds
NumSlots == 2
NumStudents == 2
NumProblems == 2
MaxTime == 4
MaxDuration == 1
MaxSubmissions == 2

\* ------------------------------------------------------- program constants
\* points: Number(p.points) || 100
DefaultPoints == 100
\* ToNumber(null) in the comparator's date subtraction
NullDate == 0
\* contest.startTime of the modelled contest, in minutes
ContestStart == 2

Students == 1..NumStudents
ProblemIds == 1..NumProblems
LowPoints == DefaultPoints \div 2

VARIABLES
  now,                \* wall clock, new Date()
  contest,            \* [startTime, duration, isPublished, problems]
  participants,       \* contest.participants as POST /:id/start stores them
  registeredStudents, \* contest.registeredStudents
  activeParticipants, \* contest.activeParticipants
  joined,             \* contest.participants as POST /:id/join stores them
  assignment,         \* [dueDate, problems, submissions]
  script,             \* per student: steps of the 100/50 scenario issued
  cmpRows,            \* standings rows handed to the comparators
  inflight,           \* per request slot: a handler between findById and save
  twin,               \* two problems and the answers to one request on each
  Submission,         \* the Submission collection
  deleted,            \* which of "contest", "assignment" has been deleted
  resp                \* the answer to the last request: [op, status]

vars == <<now, contest, participants, registeredStudents, activeParticipants,
          joined, assignment, script, cmpRows, inflight, twin, Submission,
          deleted, resp>>

contestVars == <<contest, participants>>
studentVars == <<registeredStudents, activeParticipants>>

\* ---------------------------------------------------------------- helpers
Range(s) == {s[i] : i \in DOMAIN s}

RECURSIVE SumSeq(_)
SumSeq(s) == IF s = <<>> THEN 0 ELSE Head(s) + SumSeq(Tail(s))

\* Array.prototype.find on contest.participants by student: index or 0
FindParticipant(s) ==
  IF \E i \in DOMAIN participants : participants[i].student = s
  THEN CHOOSE i \in DOMAIN participants :
         /\ participants[i].student = s
         /\ \A j \in 1..(i-1) : participants[j].student # s
  ELSE 0

\* contest.problems.find(p => p.problem.toString() === problemId): index or 0
FindContestProblem(pid) ==
  IF \E i \in DOMAIN contest.problems : contest.problems[i].problem = pid
  THEN CHOOSE i \in DOMAIN contest.problems :
         /\ contest.problems[i].problem = pid
         /\ \A j \in 1..(i-1) : contest.problems[j].problem # pid
  ELSE 0

\* contest.problems.find(p => p.problemId.toString() === problemId) of the
\* submit handler: "throw" when the callback reads problemId of an entry that
\* has no such field (undefined.toString()), else index or 0.
RECURSIVE FindByProblemId(_, _)
FindByProblemId(i, pid) ==
  IF i > Len(contest.problems) THEN 0
  ELSE IF "problemId" \notin DOMAIN contest.problems[i] THEN -1
  ELSE IF contest.problems[i].problemId = pid THEN i
  ELSE FindByProblemId(i + 1, pid)

Answer(op, s, status) == [op |-> op, status |-> status]

\* ------------------------------------------------------------------- Init
\* Two requests can be between their await of findById and their await of
\* save at the same time.
Slots == 1..NumSlots
Idle == [pc |-> "idle"]

\* no pair of problems under comparison
NoTwin == [op |-> "none"]

\* The contest as POST / (create) stores it: entries {problem, points}.
\* Problem 1 keeps the default 100 points, the others are given 50.
PointsGiven(i) == IF i = 1 THEN DefaultPoints ELSE LowPoints
ContestDocs(maxProblems) ==
  { [startTime |-> ContestStart, duration |-> d, isPublished |-> TRUE,
     problems |-> [i \in 1..n |-> [problem |-> i, points |-> PointsGiven(i)]]] :
    d \in 1..MaxDuration, n \in 1..maxProblems }

\* The assignment as POST /faculty/assignments stores it.
AssignmentDoc ==
  [dueDate |-> ContestStart + MaxDuration, problems |-> ProblemIds,
   submissions |-> <<>>]

InitLists ==
  /\ now = 1
  /\ participants = <<>>
  /\ registeredStudents = <<>>
  /\ joined = <<>>
  /\ assignment = AssignmentDoc
  /\ script = [s \in Students |-> 0]
  /\ inflight = [r \in Slots |-> Idle]
  /\ twin = NoTwin
  /\ Submission = <<>>
  /\ deleted = {}
  /\ resp = Answer("none", 0, 0)

InitRest ==
  /\ InitLists
  /\ activeParticipants = <<>>

\* contest.activeParticipants is declared by the schema of models/Contest.js,
\* but no handler of the repository adds an entry: the stored contest holds
\* the entries it was given, here none or one for the first student.
ActiveDocs ==
  { <<>>, <<[student |-> 1, startTime |-> 1, submissions |-> <<>>]>> }

InitRecord ==
  /\ InitLists
  /\ activeParticipants \in ActiveDocs
  /\ contest \in ContestDocs(NumProblems)
  /\ contest.duration = MaxDuration
  /\ Len(contest.problems) = NumProblems
  /\ cmpRows = <<>>

Init ==
  /\ InitRest
  /\ contest \in ContestDocs(NumProblems)
  /\ cmpRows = <<>>

\* contests with one more problem
InitWide ==
  /\ InitRest
  /\ contest \in ContestDocs(NumProblems + 1)
  /\ cmpRows = <<>>

\* standings rows as the leaderboards build them: any three of them
StandingKeys ==
  [totalPoints : {0, LowPoints, DefaultPoints},
   problemsSolved : 0..NumProblems,
   lastSubmission : {NullDate} \cup (ContestStart..(ContestStart + MaxDuration))]

\* one leaderboard row per student, as the leaderboards' map callbacks build it
StandingRow(s, k) ==
  [student |-> s,
   totalPoints |-> k.totalPoints,
   problemsSolved |-> k.problemsSolved,
   lastSubmission |-> k.lastSubmission]

InitCompare ==
  /\ InitRest
  /\ contest \in ContestDocs(1)
  /\ \E keys \in [1..3 -> StandingKeys] :
       cmpRows = [i \in 1..3 |-> StandingRow(i, keys[i])]

\* ---------------------------------------------------------------- actions
Tick ==
  /\ now < MaxTime
  /\ now' = now + 1
  /\ UNCHANGED <<contest, participants, studentVars, joined, assignment, resp>>

\* POST /:id/start
StartContest(s) ==
  LET endTime == contest.startTime + contest.duration
      i == FindParticipant(s)
  IN
  IF now < contest.startTime THEN
    /\ resp' = Answer("start", s, 400)
    /\ UNCHANGED <<now, contest, participants>>
  ELSE IF now > endTime THEN
    /\ resp' = Answer("start", s, 400)
    /\ UNCHANGED <<now, contest, participants>>
  ELSE IF i # 0 THEN
    /\ resp' = Answer("start", s, 200)
    /\ UNCHANGED <<now, contest, participants>>
  ELSE
    /\ participants' = Append(participants,
         [student |-> s, startTime |-> now, completedProblems |-> <<>>,
          totalPoints |-> 0, submissions |-> <<>>])
    /\ resp' = Answer("start", s, 200)
    /\ UNCHANGED <<now, contest>>

\* endTime = new Date(participant.startTime);
\* endTime.setMinutes(endTime.getMinutes() + contest.duration)
PersonalEndInHours(p) == p.startTime + contest.duration * 60
PersonalEnd(p) == p.startTime + contest.duration

\* POST /:id/problems/:problemId/submit.  status is req.body.status.
\* The problem lookup reads p.problemId, a field no entry of contest.problems
\* has (create and update store {problem, points}), so with a non-empty
\* problem list the callback throws and the catch answers 500.
SubmitSolution(s, pid, status) ==
  LET i == FindParticipant(s)
      k == FindByProblemId(1, pid)
  IN
  IF i = 0 THEN
    /\ resp' = Answer("submit", s, 403)
    /\ UNCHANGED <<now, contest, participants>>
  ELSE IF now > PersonalEnd(participants[i]) THEN
    /\ resp' = Answer("submit", s, 403)
    /\ UNCHANGED <<now, contest, participants>>
  ELSE IF k = -1 THEN
    /\ resp' = Answer("submit", s, 500)
    /\ UNCHANGED <<now, contest, participants>>
  ELSE IF k = 0 THEN
    /\ resp' = Answer("submit", s, 404)
    /\ UNCHANGED <<now, contest, participants>>
  ELSE
    LET pts == IF status = "PASSED" THEN contest.problems[k].points ELSE 0
        subs == Append(participants[i].submissions,
                  [problem |-> pid, status |-> status, points |-> pts,
                   submittedAt |-> now])
    IN
    /\ participants' = [participants EXCEPT
         ![i].submissions = subs,
         ![i].totalPoints = SumSeq([j \in DOMAIN subs |-> subs[j].points])]
    /\ resp' = Answer("submit", s, 200)
    /\ UNCHANGED <<now, contest>>

\* participant.completedProblems.includes(req.params.problemId)
IsCompletedNever(p, pid) == FALSE
IsCompleted(p, pid) == pid \in Range(p.completedProblems)

\* POST /:id/problems/:problemId/complete (routes/contestRoutes.js)
\* A record pushed here has no points field: the submit handler's
\* (sub.points || 0) reads it as 0.
CompleteProblem(s, pid) ==
  LET i == FindParticipant(s)
      k == FindContestProblem(pid)
  IN
  IF i = 0 THEN
    /\ resp' = Answer("complete", s, 404)
    /\ UNCHANGED <<now, contest, participants>>
  ELSE IF k = 0 THEN
    /\ resp' = Answer("complete", s, 404)
    /\ UNCHANGED <<now, contest, participants>>
  ELSE IF ~IsCompleted(participants[i], pid) THEN
    /\ participants' = [participants EXCEPT
         ![i].completedProblems = Append(@, pid),
         ![i].totalPoints = @ + contest.problems[k].points,
         ![i].submissions = Append(@,
            [problem |-> pid, status |-> "PASSED", points |-> 0,
             submittedAt |-> now])]
    /\ resp' = Answer("complete", s, 200)
    /\ UNCHANGED <<now, contest>>
  ELSE
    /\ resp' = Answer("complete", s, 200)
    /\ UNCHANGED <<now, contest, participants>>

\* ------------------------------------------------------------ leaderboards
PassedCount(subs) == Cardinality({j \in DOMAIN subs : subs[j].status = "PASSED"})

LastSubmission(subs) ==
  IF Len(subs) > 0 THEN subs[Len(subs)].submittedAt ELSE NullDate

\* GET /:id/leaderboard of routes/contestRoutes.js: the row of one participant
RowStored(p) ==
  [student |-> p.student,
   totalPoints |-> p.totalPoints,
   problemsSolved |-> PassedCount(p.submissions),
   lastSubmission |-> LastSubmission(p.submissions)]

\* points of a completed problem in the contest's own list, 0 when not found
ContestPoints(pid) ==
  IF FindContestProblem(pid) # 0
  THEN contest.problems[FindContestProblem(pid)].points
  ELSE 0

\* GET /:id/leaderboard of unnamed/part_007: the row of one participant
RowComputed(p) ==
  [student |-> p.student,
   totalPoints |->
     SumSeq([j \in DOMAIN p.completedProblems |-> ContestPoints(p.completedProblems[j])]),
   problemsSolved |-> Len(p.completedProblems),
   lastSubmission |-> LastSubmission(p.submissions)]

\* the sort comparator of routes/contestRoutes.js
CompareStored(a, b) ==
  IF b.totalPoints # a.totalPoints THEN b.totalPoints - a.totalPoints
  ELSE a.lastSubmission - b.lastSubmission

\* the sort comparator of unnamed/part_007
CompareComputedNoSolved(a, b) ==
  IF b.totalPoints # a.totalPoints THEN b.totalPoints - a.totalPoints
  ELSE a.lastSubmission - b.lastSubmission
CompareComputed(a, b) ==
  IF b.totalPoints # a.totalPoints THEN b.totalPoints - a.totalPoints
  ELSE IF b.problemsSolved # a.problemsSolved THEN b.problemsSolved - a.problemsSolved
  ELSE a.lastSubmission - b.lastSubmission

\* the sort comparator of the assignment leaderboard:
\* b.totalPoints - a.totalPoints || b.problemsSolved - a.problemsSolved
CompareAssignment(a, b) ==
  IF b.totalPoints - a.totalPoints # 0 THEN b.totalPoints - a.totalPoints
  ELSE b.problemsSolved - a.problemsSolved

\* the sort comparator of the faculty leaderboard
CompareFaculty(a, b) == b.totalPoints - a.totalPoints

Compare(kind, a, b) ==
  IF kind = "stored" THEN CompareStored(a, b)
  ELSE IF kind = "computed" THEN CompareComputed(a, b)
  ELSE IF kind = "faculty" THEN CompareFaculty(a, b)
  ELSE CompareAssignment(a, b)

\* Array.prototype.sort is stable: an element goes after every element that
\* does not compare greater than it.
RECURSIVE InsertRow(_, _, _)
InsertRow(kind, x, sorted) ==
  IF sorted = <<>> THEN <<x>>
  ELSE IF Compare(kind, Head(sorted), x) > 0 THEN <<x>> \o sorted
  ELSE <<Head(sorted)>> \o InsertRow(kind, x, Tail(sorted))

RECURSIVE SortRows(_, _)
SortRows(kind, rows) ==
  IF rows = <<>> THEN <<>>
  ELSE InsertRow(kind, rows[Len(rows)], SortRows(kind, SubSeq(rows, 1, Len(rows) - 1)))

LeaderboardStored ==
  SortRows("stored", [i \in DOMAIN participants |-> RowStored(participants[i])])

LeaderboardComputed ==
  SortRows("computed", [i \in DOMAIN participants |-> RowComputed(participants[i])])

\* GET /:id/leaderboard, routes/contestRoutes.js
GetLeaderboard ==
  /\ resp' = Answer("leaderboard", 0, 200)
  /\ UNCHANGED <<now, contest, participants>>

\* GET /:id/leaderboard, unnamed/part_007
GetLeaderboardComputed ==
  /\ resp' = Answer("leaderboardComputed", 0, 200)
  /\ UNCHANGED <<now, contest, participants>>

\* GET /:id/leaderboard of the join router: it walks contest.submissions, a
\* field no handler stores, so forEach is called on undefined and the catch
\* answers 500.
ContestSubmissionsStored == FALSE
GetLeaderboardJoin ==
  /\ resp' = Answer("leaderboardJoin", 0,
                    IF ContestSubmissionsStored THEN 200 ELSE 500)
  /\ UNCHANGED <<now, contest, joined>>

\* ------------------------------------------- /student/contests/... router
FindRegistered(s) ==
  IF \E i \in DOMAIN registeredStudents : registeredStudents[i].student = s
  THEN CHOOSE i \in DOMAIN registeredStudents :
         /\ registeredStudents[i].student = s
         /\ \A j \in 1..(i-1) : registeredStudents[j].student # s
  ELSE 0

FindActive(s) ==
  IF \E i \in DOMAIN activeParticipants : activeParticipants[i].student = s
  THEN CHOOSE i \in DOMAIN activeParticipants :
         /\ activeParticipants[i].student = s
         /\ \A j \in 1..(i-1) : activeParticipants[j].student # s
  ELSE 0

\* submissions.findIndex / find by problemId: index or 0
FindSubmission(subs, pid) ==
  IF \E i \in DOMAIN subs : subs[i].problemId = pid
  THEN CHOOSE i \in DOMAIN subs :
         /\ subs[i].problemId = pid
         /\ \A j \in 1..(i-1) : subs[j].problemId # pid
  ELSE 0

\* POST /student/contests/:id/register
RegisterStudent(s) ==
  IF FindRegistered(s) # 0 THEN
    /\ resp' = Answer("register", s, 400)
    /\ UNCHANGED <<now, contest, studentVars>>
  ELSE
    /\ registeredStudents' = Append(registeredStudents,
         [student |-> s, startedAt |-> NullDate, submissions |-> <<>>])
    /\ resp' = Answer("register", s, 200)
    /\ UNCHANGED <<now, contest, activeParticipants>>

\* POST /student/contests/:id/start
StartRegistered(s) ==
  LET i == FindRegistered(s) IN
  IF i = 0 THEN
    /\ resp' = Answer("startRegistered", s, 400)
    /\ UNCHANGED <<now, contest, studentVars>>
  ELSE IF registeredStudents[i].startedAt # NullDate THEN
    /\ resp' = Answer("startRegistered", s, 400)
    /\ UNCHANGED <<now, contest, studentVars>>
  ELSE
    /\ registeredStudents' = [registeredStudents EXCEPT ![i].startedAt = now]
    /\ resp' = Answer("startRegistered", s, 200)
    /\ UNCHANGED <<now, contest, activeParticipants>>

\* updateSubmissionStatus(contest, userId, problemId, code, language):
\* the value of contest.activeParticipants after the call
UpdateSubmissionStatus(s, pid) ==
  LET i == FindActive(s) IN
  IF i = 0 THEN activeParticipants
  ELSE
    LET submission == [problemId |-> pid, status |-> "PASSED", submittedAt |-> now]
        k == FindSubmission(activeParticipants[i].submissions, pid)
    IN
    IF k # 0
    THEN [activeParticipants EXCEPT ![i].submissions[k] = submission]
    ELSE [activeParticipants EXCEPT ![i].submissions = Append(@, submission)]

\* POST /student/contests/:id/problems/:problemId/run.  allPassed is the
\* judge's verdict over the test cases (a failed judge call counts as a
\* failed test case).
RunCode(s, pid, allPassed) ==
  IF FindContestProblem(pid) = 0 THEN
    /\ resp' = Answer("run", s, 404)
    /\ UNCHANGED <<now, contest, studentVars>>
  ELSE
    /\ activeParticipants' =
         IF allPassed THEN UpdateSubmissionStatus(s, pid) ELSE activeParticipants
    /\ resp' = Answer("run", s, 200)
    /\ UNCHANGED <<now, contest, registeredStudents>>

\* POST /student/contests/:id/save-code
SaveCode(s, pid) ==
  LET i == FindActive(s) IN
  IF i = 0 THEN
    /\ resp' = Answer("saveCode", s, 400)
    /\ UNCHANGED <<now, contest, studentVars>>
  ELSE
    LET k == FindSubmission(activeParticipants[i].submissions, pid) IN
    /\ activeParticipants' =
         IF k # 0
         THEN [activeParticipants EXCEPT ![i].submissions[k].submittedAt = now]
         ELSE [activeParticipants EXCEPT ![i].submissions = Append(@,
                 [problemId |-> pid, status |-> "IN_PROGRESS", submittedAt |-> now])]
    /\ resp' = Answer("saveCode", s, 200)
    /\ UNCHANGED <<now, contest, registeredStudents>>

\* ------------------------------------------------------------ join router
\* POST /:id/join (unnamed/part_008)
JoinContest(s) ==
  LET endTime == contest.startTime + contest.duration IN
  IF \E i \in DOMAIN joined : joined[i].user = s THEN
    /\ resp' = Answer("join", s, 400)
    /\ UNCHANGED <<now, contest, joined>>
  ELSE IF now > endTime THEN
    /\ resp' = Answer("join", s, 400)
    /\ UNCHANGED <<now, contest, joined>>
  ELSE
    /\ joined' = Append(joined, [user |-> s, joinedAt |-> now, submissions |-> <<>>])
    /\ resp' = Answer("join", s, 200)
    /\ UNCHANGED <<now, contest>>

\* ------------------------------------------------------------ assignments
\* POST /:id/submit (routes/assignmentRoutes.js).  Problem.findById finds
\* every requested problem; allPassed is results.every(r => r.passed).
SubmitAssignmentReplacing(s, pid, allPassed) ==
  LET rec == [student |-> s, problemId |-> pid,
              status |-> IF allPassed THEN "PASSED" ELSE "FAILED",
              submittedAt |-> now]
      old == { k \in DOMAIN assignment.submissions :
                 /\ assignment.submissions[k].student = s
                 /\ assignment.submissions[k].problemId = pid }
  IN
  /\ assignment' = [assignment EXCEPT !.submissions =
       IF old = {} THEN Append(@, rec)
       ELSE [@ EXCEPT ![CHOOSE k \in old : TRUE] = rec]]
  /\ resp' = Answer("submitAssignment", s, 200)
  /\ UNCHANGED now
SubmitAssignment(s, pid, allPassed) ==
  /\ assignment' = [assignment EXCEPT !.submissions = Append(@,
       [student |-> s, problemId |-> pid,
        status |-> IF allPassed THEN "PASSED" ELSE "FAILED",
        submittedAt |-> now])]
  /\ resp' = Answer("submitAssignment", s, 200)
  /\ UNCHANGED now

\* GET /:id (assignment): solvedProblems of the requesting student
SolvedProblemsLatest(s) ==
  { assignment.submissions[j].problemId :
      j \in { k \in DOMAIN assignment.submissions :
                /\ assignment.submissions[k].student = s
                /\ assignment.submissions[k].status = "PASSED"
                /\ \A m \in DOMAIN assignment.submissions :
                     (/\ m > k
                      /\ assignment.submissions[m].student = s
                      /\ assignment.submissions[m].problemId =
                           assignment.submissions[k].problemId)
                     => assignment.submissions[m].status = "PASSED" } }
SolvedProblems(s) ==
  { assignment.submissions[j].problemId :
      j \in { k \in DOMAIN assignment.submissions :
                /\ assignment.submissions[k].student = s
                /\ assignment.submissions[k].status = "PASSED" } }

\* earnedPoints = solvedProblems.size * 10
PointsPerProblem == 10
EarnedPoints(s) == Cardinality(SolvedProblems(s)) * PointsPerProblem

\* ---------------------------------------------------------------- requests
Statuses == {"PASSED", "FAILED"}
OtherProblem == NumProblems + 1
ReqProblemIds == ProblemIds \cup {OtherProblem}

more == <<twin, Submission, deleted>>
aux == <<script, cmpRows, inflight, more>>
notContest == <<studentVars, joined, assignment, aux>>
notStudent == <<participants, joined, assignment, aux>>
notJoin == <<participants, studentVars, assignment, aux>>
notAssignment == <<contest, participants, studentVars, joined, aux>>

Clock == Tick /\ UNCHANGED aux

Start == \E s \in Students : StartContest(s) /\ UNCHANGED notContest

Submit ==
  \E s \in Students, pid \in ReqProblemIds, st \in Statuses :
    SubmitSolution(s, pid, st) /\ UNCHANGED notContest

Complete ==
  \E s \in Students, pid \in ReqProblemIds :
    CompleteProblem(s, pid) /\ UNCHANGED notContest

Leaderboard == GetLeaderboard /\ UNCHANGED notContest

LeaderboardComputedRead == GetLeaderboardComputed /\ UNCHANGED notContest

LeaderboardJoinRead == GetLeaderboardJoin /\ UNCHANGED notJoin

Register == \E s \in Students : RegisterStudent(s) /\ UNCHANGED notStudent

StartRegisteredStep == \E s \in Students : StartRegistered(s) /\ UNCHANGED notStudent

\* the number of result records stored so far, which MaxSubmissions caps
RecordCount ==
  Len(assignment.submissions)
    + SumSeq([i \in DOMAIN activeParticipants |-> Len(activeParticipants[i].submissions)])

Run ==
  /\ RecordCount < MaxSubmissions
  /\ \E s \in Students, pid \in ReqProblemIds, ok \in BOOLEAN :
       RunCode(s, pid, ok) /\ UNCHANGED notStudent

Save ==
  /\ RecordCount < MaxSubmissions
  /\ \E s \in Students, pid \in ReqProblemIds :
       SaveCode(s, pid) /\ UNCHANGED notStudent

Join == \E s \in Students : JoinContest(s) /\ UNCHANGED notJoin

SubmitToAssignment ==
  /\ RecordCount < MaxSubmissions
  /\ \E s \in Students, pid \in ReqProblemIds, ok \in BOOLEAN :
       SubmitAssignment(s, pid, ok) /\ UNCHANGED notAssignment

Next ==
  \/ Clock
  \/ Start
  \/ Submit
  \/ Complete
  \/ Leaderboard
  \/ LeaderboardComputedRead
  \/ LeaderboardJoinRead
  \/ Register
  \/ StartRegisteredStep
  \/ Run
  \/ Save
  \/ Join
  \/ SubmitToAssignment

Spec == Init /\ [][Next]_vars

\* The router of POST /:id/start, /submit, /complete, with the three
\* leaderboard handlers.
ContestNext ==
  \/ Clock
  \/ Start
  \/ Submit
  \/ Complete
  \/ Leaderboard
  \/ LeaderboardComputedRead
  \/ LeaderboardJoinRead

SpecContest == Init /\ [][ContestNext]_vars

\* The router of the /student/contests/... routes with the assignment's
\* submit: the handlers that record results.
RecordNext ==
  \/ SubmitToAssignment
  \/ Run
  \/ Save

SpecRecord == InitRecord /\ [][RecordNext]_vars

\* The three ways to enrol.
EnrolNext ==
  \/ Clock
  \/ Register
  \/ Start
  \/ Join

SpecEnrol == Init /\ [][EnrolNext]_vars

\* Completing and ranking in contests of up to NumProblems + 1 problems.
WideNext ==
  \/ Clock
  \/ Start
  \/ Complete
  \/ Leaderboard
  \/ LeaderboardComputedRead

SpecWide == InitWide /\ [][WideNext]_vars

\* The scenario of a contest with problems worth 100 and 50: two FAILED
\* submits on the first problem, then a PASSED submit on the second, each
\* issued while the contest is Active for the student.
ScenarioSteps ==
  << [problem |-> 1, status |-> "FAILED"],
     [problem |-> 1, status |-> "FAILED"],
     [problem |-> 2, status |-> "PASSED"] >>

ScenarioContest ==
  /\ Len(contest.problems) = 2
  /\ contest.problems[1].points = DefaultPoints
  /\ contest.problems[2].points = LowPoints

ScenarioSubmit ==
  \E s \in Students :
    /\ script[s] < Len(ScenarioSteps)
    /\ ScenarioContest
    /\ FindParticipant(s) # 0
    /\ now <= participants[FindParticipant(s)].startTime + contest.duration
    /\ SubmitSolution(s, ScenarioSteps[script[s] + 1].problem,
                      ScenarioSteps[script[s] + 1].status)
    /\ script' = [script EXCEPT ![s] = @ + 1]
    /\ UNCHANGED <<studentVars, joined, assignment, cmpRows, inflight, more>>

ScenarioNext ==
  \/ Clock
  \/ Start
  \/ ScenarioSubmit
  \/ Leaderboard

SpecScenario == Init /\ [][ScenarioNext]_vars

\* The comparators applied to arbitrary rows: the rows are sorted in place.
\* the sort call of the contest leaderboard of unnamed/part_007
SortContest ==
  /\ cmpRows' = SortRows("computed", cmpRows)
  /\ resp' = Answer("sort", 0, 200)
  /\ UNCHANGED <<now, contest, participants, studentVars, joined, assignment, script, inflight, more>>

\* the sort call of the assignment leaderboard
SortAssignment ==
  /\ cmpRows' = SortRows("assignment", cmpRows)
  /\ resp' = Answer("sort", 0, 200)
  /\ UNCHANGED <<now, contest, participants, studentVars, joined, assignment, script, inflight, more>>

CompareNext ==
  \/ SortContest
  \/ SortAssignment

SpecCompare == InitCompare /\ [][CompareNext]_vars

\* ------------------------------------------------------------------ claims
RECURSIVE SumOver(_)
SumOver(S) ==
  IF S = {} THEN 0
  ELSE LET x == CHOOSE y \in S : TRUE IN ContestPoints(x) + SumOver(S \ {x})

\* the problems of a participant that have at least one PASSED record
PassedProblems(p) ==
  { p.submissions[j].problem :
      j \in { k \in DOMAIN p.submissions : p.submissions[k].status = "PASSED" } }

\* Active for student s: enrolled, inside the contest's window and inside
\* the student's own window.
ActiveFor(s) ==
  /\ FindParticipant(s) # 0
  /\ now >= contest.startTime
  /\ now <= contest.startTime + contest.duration
  /\ now <= participants[FindParticipant(s)].startTime + contest.duration

\* C1: on the leaderboard of routes/contestRoutes.js every participant's
\* problemsSolved is the number of distinct problems with a PASSED record and
\* totalPoints is the sum of the contest's points over those problems; a
\* submit or complete request for a problem that already has a PASSED record
\* changes neither.
C1_RowCountsDistinct ==
  \A i \in DOMAIN participants :
    LET r == RowStored(participants[i])
        solved == PassedProblems(participants[i])
    IN /\ r.problemsSolved = Cardinality(solved)
       /\ r.totalPoints = SumOver(solved)

C1_RepeatChangesNothing ==
  \A s \in Students, pid \in ReqProblemIds :
    LET i == FindParticipant(s) IN
    (/\ i # 0
     /\ pid \in PassedProblems(participants[i])
     /\ \/ CompleteProblem(s, pid)
        \/ \E st \in Statuses : SubmitSolution(s, pid, st))
    => RowStored(participants[i])' = RowStored(participants[i])

C1_DistinctSolved == [](C1_RowCountsDistinct) /\ [][C1_RepeatChangesNothing]_vars

C1_Witness ==
  /\ resp.op = "complete"
  /\ resp.status = 200
  /\ \E i \in DOMAIN participants :
       /\ Cardinality(PassedProblems(participants[i])) = NumProblems
       /\ participants[i].totalPoints = DefaultPoints + LowPoints * (NumProblems - 1)

\* C4: a submit or complete request issued while the contest is not Active
\* for the student is answered with an error and leaves the participants'
\* submission records as they were.
C4_Step ==
  \A s \in Students, pid \in ReqProblemIds :
    (/\ ~ActiveFor(s)
     /\ \/ CompleteProblem(s, pid)
        \/ \E st \in Statuses : SubmitSolution(s, pid, st))
    => /\ resp'.status >= 400
       /\ participants' = participants

C4_ClosedWindowRejects == [][C4_Step]_vars

\* C6: every leaderboard request is answered without error, and an
\* enrollment without submissions is listed with totalPoints 0 after every
\* enrollment that has a submission or points.
ZeroLast(rows) ==
  \A i, j \in DOMAIN rows :
    (/\ rows[i].lastSubmission = NullDate
     /\ rows[j].lastSubmission # NullDate \/ rows[j].totalPoints # 0)
    => (rows[i].totalPoints = 0 /\ j < i)

C6_LeaderboardTotal ==
  /\ resp.op \in {"leaderboard", "leaderboardComputed", "leaderboardJoin"}
       => resp.status = 200
  /\ Len(LeaderboardStored) = Len(participants)
  /\ ZeroLast(LeaderboardStored)
  /\ Len(LeaderboardComputed) = Len(participants)
  /\ ZeroLast(LeaderboardComputed)

\* C10: a submit by an enrolled student issued later than the student's
\* startTime + duration is answered 403 and appends nothing.
C10_Step ==
  \A s \in Students, pid \in ReqProblemIds, st \in Statuses :
    LET i == FindParticipant(s) IN
    (/\ i # 0
     /\ now > participants[i].startTime + contest.duration
     /\ SubmitSolution(s, pid, st))
    => /\ resp'.status = 403
       /\ participants' = participants

ActiveSolved(s) ==
  LET i == FindActive(s) IN
  IF i = 0 THEN {}
  ELSE { activeParticipants[i].submissions[j].problemId :
           j \in { k \in DOMAIN activeParticipants[i].submissions :
                     activeParticipants[i].submissions[k].status = "PASSED" } }

\* C2: no step of a handler that records results (assignment submit, passing
\* run, save-code) makes a student's set of solved problems smaller.
C2_Step ==
  \A s \in Students :
    /\ Cardinality(SolvedProblems(s)') >= Cardinality(SolvedProblems(s))
    /\ Cardinality(ActiveSolved(s)') >= Cardinality(ActiveSolved(s))

C3_Step ==
  \A s \in Students, pid \in ReqProblemIds :
    (/\ \E k \in DOMAIN assignment.submissions :
          /\ assignment.submissions[k].student = s
          /\ assignment.submissions[k].problemId = pid
          /\ assignment.submissions[k].status = "PASSED"
     /\ SubmitAssignment(s, pid, FALSE))
    => /\ pid \in SolvedProblems(s)'
       /\ EarnedPoints(s)' = EarnedPoints(s)
       /\ EarnedPoints(s)' >= PointsPerProblem

C3_PassedSurvivesFailed == [][C3_Step]_vars

C3_Witness ==
  \E s \in Students, pid \in ReqProblemIds :
    \E j, k \in DOMAIN assignment.submissions :
      /\ j < k
      /\ assignment.submissions[j] \in
           [student : {s}, problemId : {pid}, status : {"PASSED"}, submittedAt : 1..MaxTime]
      /\ assignment.submissions[k] \in
           [student : {s}, problemId : {pid}, status : {"FAILED"}, submittedAt : 1..MaxTime]
      /\ pid \in SolvedProblems(s)

\* C5: a student has at most one Enrollment in each list, and a register,
\* start or join request of a student who is already enrolled is answered
\* with success.
C5_OneEnrollment ==
  \A s \in Students :
    /\ Cardinality({i \in DOMAIN registeredStudents : registeredStudents[i].student = s}) <= 1
    /\ Cardinality({i \in DOMAIN participants : participants[i].student = s}) <= 1
    /\ Cardinality({i \in DOMAIN joined : joined[i].user = s}) <= 1

C5_Step ==
  \A s \in Students :
    /\ (FindRegistered(s) # 0 /\ RegisterStudent(s)) => resp'.status = 200
    /\ (FindParticipant(s) # 0 /\ StartContest(s)
          /\ now <= contest.startTime + contest.duration) => resp'.status = 200
    /\ ((\E i \in DOMAIN joined : joined[i].user = s) /\ JoinContest(s))
          => resp'.status = 200

C5_JoinIdempotent == [](C5_OneEnrollment) /\ [][C5_Step]_vars

\* C7: each contest leaderboard is ordered by totalPoints descending, then
\* problemsSolved descending, then lastSubmission ascending.
RankedBefore(a, b) ==
  \/ a.totalPoints > b.totalPoints
  \/ /\ a.totalPoints = b.totalPoints
     /\ a.problemsSolved > b.problemsSolved
  \/ /\ a.totalPoints = b.totalPoints
     /\ a.problemsSolved = b.problemsSolved
     /\ a.lastSubmission # NullDate
     /\ b.lastSubmission # NullDate
     /\ a.lastSubmission < b.lastSubmission

SortedAsSpecified(rows) ==
  \A i, j \in DOMAIN rows : i < j => ~RankedBefore(rows[j], rows[i])

C7_SortOrder ==
  /\ SortedAsSpecified(LeaderboardStored)
  /\ SortedAsSpecified(LeaderboardComputed)

\* C8 as stated: of any two different rows exactly one is before the other,
\* and "before" is transitive.
Before(kind, a, b) == Compare(kind, a, b) < 0

C8_TotalOrder ==
  \A kind \in {"computed", "assignment"} :
    /\ \A i, j \in DOMAIN cmpRows :
         cmpRows[i] # cmpRows[j]
           => (Before(kind, cmpRows[i], cmpRows[j]) # Before(kind, cmpRows[j], cmpRows[i]))
    /\ \A i, j, k \in DOMAIN cmpRows :
         (Before(kind, cmpRows[i], cmpRows[j]) /\ Before(kind, cmpRows[j], cmpRows[k]))
           => Before(kind, cmpRows[i], cmpRows[k])

\* C8 amended: "before" is antisymmetric and transitive, and of two rows that
\* differ in a field the comparator reads exactly one is before the other;
\* rows that agree in those fields compare equal.
SameKey(kind, a, b) ==
  /\ a.totalPoints = b.totalPoints
  /\ a.problemsSolved = b.problemsSolved
  /\ kind = "computed" => a.lastSubmission = b.lastSubmission

C8_StrictWeakOrder ==
  \A kind \in {"computed", "assignment"} :
    /\ \A i, j \in DOMAIN cmpRows :
         /\ ~(Before(kind, cmpRows[i], cmpRows[j]) /\ Before(kind, cmpRows[j], cmpRows[i]))
         /\ ~SameKey(kind, cmpRows[i], cmpRows[j])
              => (Before(kind, cmpRows[i], cmpRows[j]) \/ Before(kind, cmpRows[j], cmpRows[i]))
         /\ SameKey(kind, cmpRows[i], cmpRows[j])
              => Compare(kind, cmpRows[i], cmpRows[j]) = 0
    /\ \A i, j, k \in DOMAIN cmpRows :
         (Before(kind, cmpRows[i], cmpRows[j]) /\ Before(kind, cmpRows[j], cmpRows[k]))
           => Before(kind, cmpRows[i], cmpRows[k])

C8_Witness ==
  /\ resp.op = "sort"
  /\ cmpRows[1].lastSubmission = NullDate
  /\ cmpRows[2].lastSubmission # NullDate
  /\ cmpRows[1].totalPoints = cmpRows[2].totalPoints
  /\ cmpRows[1].problemsSolved = cmpRows[2].problemsSolved
  /\ cmpRows[2].totalPoints = cmpRows[3].totalPoints
  /\ cmpRows[2].problemsSolved > cmpRows[3].problemsSolved

\* C9: a student who issued the three submits of the scenario has
\* totalPoints 50 and problemsSolved 1 on the leaderboard.
C9_Scenario ==
  \A i \in DOMAIN participants :
    script[participants[i].student] = Len(ScenarioSteps)
      => \E k \in DOMAIN LeaderboardStored :
           /\ LeaderboardStored[k].student = participants[i].student
           /\ LeaderboardStored[k].totalPoints = LowPoints
           /\ LeaderboardStored[k].problemsSolved = 1

\* ------------------------------------------------- publishing and status
\* PATCH /faculty/contests/:id/publish: isPublished := req.body.isPublished
PublishContest(p) ==
  /\ contest' = [contest EXCEPT !.isPublished = p]
  /\ resp' = Answer("publish", 0, 200)
  /\ UNCHANGED <<now, participants, studentVars, joined>>

\* POST /:id/problems/:problemId/complete of unnamed/part_007: a student who
\* is not a participant is added with the problem completed and totalPoints 0
CompleteProblemOlder(s, pid) ==
  LET i == FindParticipant(s)
      k == FindContestProblem(pid)
      rec == [problem |-> pid, status |-> "PASSED", points |-> 0, submittedAt |-> now]
  IN
  /\ participants' =
       IF i = 0 THEN
         Append(participants,
           [student |-> s, startTime |-> now, completedProblems |-> <<pid>>,
            totalPoints |-> 0, submissions |-> <<rec>>])
       ELSE IF ~IsCompleted(participants[i], pid) THEN
         [participants EXCEPT
            ![i].completedProblems = Append(@, pid),
            ![i].totalPoints = IF k # 0 THEN @ + contest.problems[k].points ELSE @,
            ![i].submissions = Append(@, rec)]
       ELSE participants
  /\ resp' = Answer("completeOlder", s, 200)
  /\ UNCHANGED <<now, contest>>

\* getContestStatus(contest)
GetContestStatusEndExclusive ==
  IF ~contest.isPublished THEN "Draft"
  ELSE IF now < contest.startTime THEN "Upcoming"
  ELSE IF now >= contest.startTime + contest.duration THEN "Completed"
  ELSE "Active"
GetContestStatus ==
  IF ~contest.isPublished THEN "Draft"
  ELSE IF now < contest.startTime THEN "Upcoming"
  ELSE IF now > contest.startTime + contest.duration THEN "Completed"
  ELSE "Active"

\* the number of records stored in contest.participants
ParticipantRecords ==
  SumSeq([i \in DOMAIN participants |-> Len(participants[i].submissions)])

Publish == \E p \in BOOLEAN : PublishContest(p) /\ UNCHANGED <<assignment, aux>>

CompleteOlder ==
  /\ ParticipantRecords < MaxSubmissions
  /\ \E s \in Students, pid \in ReqProblemIds :
       CompleteProblemOlder(s, pid) /\ UNCHANGED notContest

\* A contest as POST / stores it is unpublished (the schema's default).
InitDraft ==
  /\ InitRest
  /\ \E c \in ContestDocs(1) : contest = [c EXCEPT !.isPublished = FALSE]
  /\ cmpRows = <<>>

\* Publishing, the clock and the handlers that add an Enrollment.
LifecycleNext ==
  \/ Clock
  \/ Publish
  \/ Register
  \/ Join
  \/ CompleteOlder

SpecLifecycle == InitDraft /\ [][LifecycleNext]_vars

\* Publishing, the clock, registering and the two start handlers.
StartNext ==
  \/ Clock
  \/ Publish
  \/ Register
  \/ StartRegisteredStep
  \/ Start

SpecStart == InitDraft /\ [][StartNext]_vars

\* the status GET /student/contests computes for a listed contest
StudentListStatus ==
  IF now < contest.startTime THEN "Upcoming"
  ELSE IF now > contest.startTime + contest.duration THEN "Completed"
  ELSE "Active"

\* GET /faculty/contests: the creator's contests with getContestStatus
GetFacultyContests ==
  /\ resp' = [op |-> "facultyContests", status |-> 200, shown |-> GetContestStatus]
  /\ UNCHANGED <<now, contest, participants, studentVars, joined>>

\* GET /student/contests: Contest.find({ isPublished: true }) with the status
\* of each; an unpublished contest is not listed
GetStudentContests ==
  /\ resp' = [op |-> "studentContests", status |-> 200,
              shown |-> IF contest.isPublished THEN StudentListStatus ELSE "unlisted"]
  /\ UNCHANGED <<now, contest, participants, studentVars, joined>>

\* PUT /:id with startTime and duration in the body
UpdateContest(st, d) ==
  /\ contest' = [contest EXCEPT !.startTime = st, !.duration = d]
  /\ resp' = Answer("update", 0, 200)
  /\ UNCHANGED <<now, participants, studentVars, joined>>

FacultyList == GetFacultyContests /\ UNCHANGED <<assignment, aux>>

StudentList == GetStudentContests /\ UNCHANGED <<assignment, aux>>

Update ==
  \E st \in ContestStart..(ContestStart + 1), d \in 1..(MaxDuration + 1) :
    UpdateContest(st, d) /\ UNCHANGED <<assignment, aux>>

\* Publishing, rescheduling, the clock and the two listings.
StatusNext ==
  \/ Clock
  \/ Publish
  \/ Update
  \/ FacultyList
  \/ StudentList

SpecStatus == InitDraft /\ [][StatusNext]_vars

\* GET /student/contests/:id/state: the status shown for a problem is the
\* status of the first record with that problemId in the submissions of the
\* student's registeredStudents entry, or NOT_ATTEMPTED
StateStatus(s, pid) ==
  LET i == FindRegistered(s) IN
  IF i = 0 THEN "NOT_ATTEMPTED"
  ELSE LET k == FindSubmission(registeredStudents[i].submissions, pid) IN
       IF k = 0 THEN "NOT_ATTEMPTED"
       ELSE registeredStudents[i].submissions[k].status

GetContestState(s) ==
  /\ resp' = [op |-> "state", status |-> 200,
              shown |-> [k \in DOMAIN contest.problems |->
                           StateStatus(s, contest.problems[k].problem)]]
  /\ UNCHANGED <<now, contest, studentVars>>

State == \E s \in Students : GetContestState(s) /\ UNCHANGED notStudent

\* The /student/contests/... handlers that write and show a student's
\* per-problem results.
StateNext ==
  \/ Register
  \/ Run
  \/ Save
  \/ State

SpecState == InitRecord /\ [][StateNext]_vars

\* GET /:id/submissions of the assignment: progress.lastSubmission of a
\* student after the forEach over the first n records.  Only a PASSED record
\* reaches the update of lastSubmission.
RECURSIVE ProgressLastSubmission(_, _)
ProgressLastSubmission(s, n) ==
  IF n = 0 THEN NullDate
  ELSE LET before == ProgressLastSubmission(s, n - 1)
           sub == assignment.submissions[n]
       IN IF sub.student = s /\ sub.status = "PASSED"
             /\ (before = NullDate \/ sub.submittedAt > before)
          THEN sub.submittedAt
          ELSE before

AssignmentLastSubmission(s) == ProgressLastSubmission(s, Len(assignment.submissions))

GetAssignmentSubmissions ==
  /\ resp' = [op |-> "assignmentSubmissions", status |-> 200,
              shown |-> [s \in Students |-> AssignmentLastSubmission(s)]]
  /\ UNCHANGED <<now, assignment>>

AssignmentProgress == GetAssignmentSubmissions /\ UNCHANGED notAssignment

\* The handlers that store timestamped records and the views that report a
\* student's last submission.
SubmitCounted ==
  /\ RecordCount + ParticipantRecords < MaxSubmissions
  /\ \E s \in Students, pid \in ReqProblemIds, ok \in BOOLEAN :
       SubmitAssignment(s, pid, ok) /\ UNCHANGED notAssignment

CompleteCounted ==
  /\ RecordCount + ParticipantRecords < MaxSubmissions
  /\ \E s \in Students, pid \in ReqProblemIds :
       CompleteProblemOlder(s, pid) /\ UNCHANGED notContest

ProgressNext ==
  \/ Clock
  \/ SubmitCounted
  \/ AssignmentProgress
  \/ CompleteCounted
  \/ LeaderboardComputedRead

SpecProgress == Init /\ [][ProgressNext]_vars

\* .map((entry, index) => ({ ...entry, rank: index + 1 }))
WithRank(rows) ==
  [k \in DOMAIN rows |->
     [f \in DOMAIN rows[k] \cup {"rank"} |-> IF f = "rank" THEN k ELSE rows[k][f]]]

\* the result of the assignment leaderboard for the rows in cmpRows
RankAssignment ==
  /\ resp' = [op |-> "rank", status |-> 200, kind |-> "assignment",
              shown |-> WithRank(SortRows("assignment", cmpRows))]
  /\ UNCHANGED <<now, contest, participants, studentVars, joined, assignment, aux>>

\* the result of the faculty leaderboard for the rows in cmpRows
RankFaculty ==
  /\ resp' = [op |-> "rank", status |-> 200, kind |-> "faculty",
              shown |-> WithRank(SortRows("faculty", cmpRows))]
  /\ UNCHANGED <<now, contest, participants, studentVars, joined, assignment, aux>>

\* the result of the contest leaderboard of unnamed/part_007 for the rows in
\* cmpRows: res.json(leaderboard) right after the sort
ContestStandings ==
  /\ resp' = [op |-> "rank", status |-> 200, kind |-> "computed",
              shown |-> SortRows("computed", cmpRows)]
  /\ UNCHANGED <<now, contest, participants, studentVars, joined, assignment, aux>>

RankNext ==
  \/ RankAssignment
  \/ RankFaculty
  \/ ContestStandings

SpecRank == InitCompare /\ [][RankNext]_vars

\* ------------------------------------------- two requests at the same time
\* A handler runs from its start to its first await without interruption and
\* again from there to the next: one step ends when findById resolves and the
\* synchronous checks and pushes on the loaded document are done, the next
\* step is save(), which sends the changes made to the loaded document
\* ($push for a pushed array element, $set for an assigned field).

\* the stored document as one request loaded it
Loaded == [registeredStudents |-> registeredStudents, participants |-> participants]

\* POST /student/contests/:id/register up to contest.save()
RegisterFind(r, s) ==
  /\ inflight[r] = Idle
  /\ IF FindRegistered(s) # 0 THEN
       /\ resp' = Answer("register", s, 400)
       /\ UNCHANGED inflight
     ELSE
       /\ inflight' = [inflight EXCEPT ![r] =
            [pc |-> "save", op |-> "register", student |-> s, seen |-> Loaded]]
       /\ UNCHANGED resp

\* contest.save() of register: $push to registeredStudents, a top-level array,
\* which save() sends without a condition on the document's version
RegisterSave(r) ==
  /\ inflight[r] # Idle
  /\ inflight[r].op = "register"
  /\ registeredStudents' = Append(registeredStudents,
       [student |-> inflight[r].student, startedAt |-> NullDate,
        submissions |-> <<>>])
  /\ inflight' = [inflight EXCEPT ![r] = Idle]
  /\ resp' = Answer("register", inflight[r].student, 200)

\* POST /:id/problems/:problemId/complete up to contest.save()
CompleteFind(r, s, pid) ==
  LET i == FindParticipant(s)
      k == FindContestProblem(pid)
  IN
  /\ inflight[r] = Idle
  /\ IF i = 0 \/ k = 0 THEN
       /\ resp' = Answer("complete", s, 404)
       /\ UNCHANGED inflight
     ELSE IF ~IsCompleted(participants[i], pid) THEN
       /\ inflight' = [inflight EXCEPT ![r] =
            [pc |-> "save", op |-> "complete", student |-> s, index |-> i,
             problem |-> pid,
             totalPoints |-> participants[i].totalPoints + contest.problems[k].points,
             submittedAt |-> now, seen |-> Loaded]]
       /\ UNCHANGED resp
     ELSE
       /\ resp' = Answer("complete", s, 200)
       /\ UNCHANGED inflight

\* contest.save() of complete: $push to participants.<i>.completedProblems
\* and .submissions, $set of participants.<i>.totalPoints.  The changes are
\* addressed by array position, so save() sends them on condition that the
\* document's version is the loaded one, and every push to an array of the
\* document raises the version: after another save the request fails with a
\* VersionError, caught as 500.
CompleteSave(r) ==
  /\ inflight[r] # Idle
  /\ inflight[r].op = "complete"
  /\ IF Loaded # inflight[r].seen THEN
       /\ resp' = Answer("complete", inflight[r].student, 500)
       /\ UNCHANGED participants
     ELSE
       /\ participants' = [participants EXCEPT
            ![inflight[r].index].completedProblems = Append(@, inflight[r].problem),
            ![inflight[r].index].totalPoints = inflight[r].totalPoints,
            ![inflight[r].index].submissions = Append(@,
               [problem |-> inflight[r].problem, status |-> "PASSED",
                points |-> 0, submittedAt |-> inflight[r].submittedAt])]
       /\ resp' = Answer("complete", inflight[r].student, 200)
  /\ inflight' = [inflight EXCEPT ![r] = Idle]

\* the entries stored and the requests about to store one, which
\* MaxSubmissions caps
StoredOrPending ==
  Len(registeredStudents) + ParticipantRecords
    + Cardinality({r \in Slots : inflight[r] # Idle})

RegisterLoad ==
  /\ StoredOrPending < MaxSubmissions
  /\ \E r \in Slots, s \in Students : RegisterFind(r, s)
  /\ UNCHANGED <<now, contest, participants, studentVars, joined, assignment,
                 script, cmpRows, more>>

RegisterStore ==
  /\ \E r \in Slots : RegisterSave(r)
  /\ UNCHANGED <<now, contest, participants, activeParticipants, joined,
                 assignment, script, cmpRows, more>>

CompleteLoad ==
  /\ StoredOrPending < MaxSubmissions
  /\ \E r \in Slots, s \in Students, pid \in ReqProblemIds : CompleteFind(r, s, pid)
  /\ UNCHANGED <<now, contest, participants, studentVars, joined, assignment,
                 script, cmpRows, more>>

CompleteStore ==
  /\ \E r \in Slots : CompleteSave(r)
  /\ UNCHANGED <<now, contest, studentVars, joined, assignment, script, cmpRows, more>>

ConcurrentNext ==
  \/ Clock
  \/ Start
  \/ RegisterLoad
  \/ RegisterStore
  \/ CompleteLoad
  \/ CompleteStore

SpecConcurrent == Init /\ [][ConcurrentNext]_vars

\* --------------------------------------------------- hidden test cases
\* Test cases as models/Problem.js declares them; strings stand for the
\* judge's input and output texts.
MaxTestCases == 2
Inputs == {"1", "2"}
Expected == {"1", "2"}
TestCases == [input : Inputs, output : Expected, isHidden : BOOLEAN]
TestCaseLists == UNION { [1..n -> TestCases] : n \in 1..MaxTestCases }

\* Two problems that differ in nothing but the input and output of their
\* hidden test cases.
TwinProblems ==
  { pq \in TestCaseLists \X TestCaseLists :
      /\ Len(pq[1]) = Len(pq[2])
      /\ \A k \in DOMAIN pq[1] :
           /\ pq[1][k].isHidden = pq[2][k].isHidden
           /\ ~pq[1][k].isHidden => pq[1][k] = pq[2][k] }

\* String.prototype.trim on the texts of the model
Trim(str) == IF str = "1\n" THEN "1" ELSE str

\* What the judge answers for a program on an input: response.data.output
\* ("" for none) and response.data.error, or no answer at all (axios throws).
RawOutputs == {"", "1", "1\n", "2"}
JudgeDown == [output |-> "", error |-> "ECONNABORTED"]
JudgeReplies == [output : RawOutputs, error : {"", "stderr"}] \cup {JudgeDown}
Programs == [Inputs -> JudgeReplies]

\* GET /student/problems/:id: the selected fields that differ between problems
ProblemView(testCases) == [testCases |-> testCases]

\* one entry of results of POST /student/contests/:id/problems/:problemId/run
RunResult(testCase, reply) ==
  IF reply = JudgeDown THEN
    [passed |-> FALSE, error |-> "Code execution failed",
     isHidden |-> testCase.isHidden]
  ELSE
    [passed |-> Trim(reply.output) = Trim(testCase.output),
     input |-> IF testCase.isHidden THEN "Hidden" ELSE testCase.input,
     expected |-> IF testCase.isHidden THEN "Hidden" ELSE Trim(testCase.output),
     actual |-> IF testCase.isHidden THEN "Hidden" ELSE Trim(reply.output),
     error |-> reply.error,
     isHidden |-> testCase.isHidden]

\* one entry of results of POST /:id/submit (assignments)
SubmitResult(testCase, reply) ==
  IF reply = JudgeDown THEN
    [passed |-> FALSE, error |-> reply.error, isHidden |-> testCase.isHidden]
  ELSE
    [passed |-> Trim(reply.output) = Trim(testCase.output),
     input |-> IF testCase.isHidden THEN "Hidden" ELSE testCase.input,
     expected |-> IF testCase.isHidden THEN "Hidden" ELSE Trim(testCase.output),
     actual |-> IF testCase.isHidden THEN "Hidden" ELSE Trim(reply.output),
     isHidden |-> testCase.isHidden]

RunResults(testCases, program) ==
  LET results == [k \in DOMAIN testCases |->
                    RunResult(testCases[k], program[testCases[k].input])]
  IN [results |-> results,
      allPassed |-> \A k \in DOMAIN results : results[k].passed]

SubmitResults(testCases, program) ==
  LET results == [k \in DOMAIN testCases |->
                    SubmitResult(testCases[k], program[testCases[k].input])]
  IN [results |-> results,
      allPassed |-> \A k \in DOMAIN results : results[k].passed]

\* the pass/fail bits of an answer
PassBits(answer) == [k \in DOMAIN answer.results |-> answer.results[k].passed]

twinFrame == <<now, contest, participants, studentVars, joined, assignment,
               script, cmpRows, inflight, Submission, deleted, resp>>

ViewTwin ==
  /\ twin' = [twin EXCEPT
       !.op = "view",
       !.shown = <<ProblemView(twin.problems[1]), ProblemView(twin.problems[2])>>,
       !.passed = <<<<>>, <<>>>>]
  /\ UNCHANGED twinFrame

RunTwin ==
  /\ \E program \in Programs :
       LET a == RunResults(twin.problems[1], program)
           b == RunResults(twin.problems[2], program)
       IN twin' = [twin EXCEPT !.op = "run", !.shown = <<a, b>>,
                               !.passed = <<PassBits(a), PassBits(b)>>]
  /\ UNCHANGED twinFrame

SubmitTwin ==
  /\ \E program \in Programs :
       LET a == SubmitResults(twin.problems[1], program)
           b == SubmitResults(twin.problems[2], program)
       IN twin' = [twin EXCEPT !.op = "submit", !.shown = <<a, b>>,
                               !.passed = <<PassBits(a), PassBits(b)>>]
  /\ UNCHANGED twinFrame

InitTwin ==
  /\ now = 1
  /\ participants = <<>>
  /\ registeredStudents = <<>>
  /\ activeParticipants = <<>>
  /\ joined = <<>>
  /\ assignment = AssignmentDoc
  /\ script = [s \in Students |-> 0]
  /\ inflight = [r \in Slots |-> Idle]
  /\ Submission = <<>>
  /\ deleted = {}
  /\ resp = Answer("none", 0, 0)
  /\ cmpRows = <<>>
  /\ contest \in ContestDocs(1)
  /\ \E pq \in TwinProblems :
       twin = [op |-> "none", problems |-> pq, shown |-> <<>>, passed |-> <<>>]

TwinNext ==
  \/ ViewTwin
  \/ RunTwin
  \/ SubmitTwin

SpecTwin == InitTwin /\ [][TwinNext]_vars

\* ------------------------------------------------------ the judge's verdict
\* What the judge calls of one request come to: every test case passed, one
\* gave a wrong output, or a call failed or ran into its timeout (axios
\* throws; the handlers catch it per test case as passed: false with an error).
JudgeVerdicts == {"pass", "fail", "down"}

\* POST /:id/submit (routes/assignmentRoutes.js) with the judge's verdict; the
\* answer carries results, whose entries show a failed call by their error.
SubmitAssignmentJudged(s, pid, verdict) ==
  /\ assignment' = [assignment EXCEPT !.submissions = Append(@,
       [student |-> s, problemId |-> pid,
        status |-> IF verdict = "pass" THEN "PASSED" ELSE "FAILED",
        submittedAt |-> now])]
  /\ resp' = [op |-> "submitAssignment", status |-> 200, judge |-> verdict]
  /\ UNCHANGED now

\* POST /student/contests/:id/problems/:problemId/run with the judge's verdict
RunCodeJudged(s, pid, verdict) ==
  IF FindContestProblem(pid) = 0 THEN
    /\ resp' = [op |-> "run", status |-> 404, judge |-> "none"]
    /\ UNCHANGED <<now, contest, studentVars>>
  ELSE
    /\ activeParticipants' =
         IF verdict = "pass" THEN UpdateSubmissionStatus(s, pid)
         ELSE activeParticipants
    /\ resp' = [op |-> "run", status |-> 200, judge |-> verdict]
    /\ UNCHANGED <<now, contest, registeredStudents>>

SubmitJudged ==
  /\ RecordCount < MaxSubmissions
  /\ \E s \in Students, pid \in ReqProblemIds, v \in JudgeVerdicts :
       SubmitAssignmentJudged(s, pid, v) /\ UNCHANGED notAssignment

RunJudged ==
  /\ RecordCount < MaxSubmissions
  /\ \E s \in Students, pid \in ReqProblemIds, v \in JudgeVerdicts :
       RunCodeJudged(s, pid, v) /\ UNCHANGED notStudent

JudgeNext ==
  \/ SubmitJudged
  \/ RunJudged

SpecJudge == InitRecord /\ [][JudgeNext]_vars

\* ------------------------------------------------------------- deletion
\* the _id of the stored assignment and one that no assignment has
AssignmentId == 1
AssignmentIds == {AssignmentId, AssignmentId + 1}

\* POST /:assignmentId/store-submission: new Submission({...}).save()
StoreSubmission(s, aid, pid, status) ==
  /\ Submission' = Append(Submission,
       [student |-> s, assignment |-> aid, problemId |-> pid,
        status |-> status, submittedAt |-> now])
  /\ resp' = Answer("storeSubmission", s, 200)

\* DELETE /assignments/:id (routes/facultyRoutes.js): findOneAndDelete by _id
\* and createdBy; the records embedded in the document go with it
DeleteAssignment(owner) ==
  IF "assignment" \in deleted \/ ~owner THEN
    /\ resp' = Answer("deleteAssignment", 0, 404)
    /\ UNCHANGED <<assignment, deleted>>
  ELSE
    /\ deleted' = deleted \cup {"assignment"}
    /\ assignment' = [assignment EXCEPT !.submissions = <<>>]
    /\ resp' = Answer("deleteAssignment", 0, 200)

\* DELETE /faculty/contests/:id
DeleteContest(owner) ==
  IF "contest" \in deleted \/ ~owner THEN
    /\ resp' = Answer("deleteContest", 0, 404)
    /\ UNCHANGED <<registeredStudents, deleted>>
  ELSE
    /\ deleted' = deleted \cup {"contest"}
    /\ registeredStudents' = <<>>
    /\ resp' = Answer("deleteContest", 0, 200)

\* the records kept so far, which MaxSubmissions caps
KeptRecords == Len(Submission) + Len(assignment.submissions) + Len(registeredStudents)

Store ==
  /\ KeptRecords < MaxSubmissions
  /\ \E s \in Students, aid \in AssignmentIds, pid \in ProblemIds, st \in Statuses :
       StoreSubmission(s, aid, pid, st)
  /\ UNCHANGED <<now, contest, participants, studentVars, joined, assignment,
                 script, cmpRows, inflight, twin, deleted>>

RemoveAssignment ==
  /\ \E owner \in BOOLEAN : DeleteAssignment(owner)
  /\ UNCHANGED <<now, contest, participants, studentVars, joined, script,
                 cmpRows, inflight, twin, Submission>>

RemoveContest ==
  /\ \E owner \in BOOLEAN : DeleteContest(owner)
  /\ UNCHANGED <<now, contest, participants, activeParticipants, joined,
                 assignment, script, cmpRows, inflight, twin, Submission>>

\* POST /:id/submit once Assignment.findById may find nothing
SubmitIfStored ==
  /\ KeptRecords < MaxSubmissions
  /\ \E s \in Students, pid \in ProblemIds, ok \in BOOLEAN :
       IF "assignment" \in deleted THEN
         /\ resp' = Answer("submitAssignment", s, 404)
         /\ UNCHANGED <<now, assignment>>
       ELSE SubmitAssignment(s, pid, ok)
  /\ UNCHANGED notAssignment

\* POST /student/contests/:id/register once Contest.findById may find nothing
RegisterIfStored ==
  /\ KeptRecords < MaxSubmissions
  /\ \E s \in Students :
       IF "contest" \in deleted THEN
         /\ resp' = Answer("register", s, 404)
         /\ UNCHANGED <<now, contest, studentVars>>
       ELSE RegisterStudent(s)
  /\ UNCHANGED notStudent

CascadeNext ==
  \/ Store
  \/ RemoveAssignment
  \/ RemoveContest
  \/ SubmitIfStored
  \/ RegisterIfStored

SpecCascade == Init /\ [][CascadeNext]_vars

\* ------------------------------------------------- contest create and update
\* Values a request body can hold for duration and points; NaN stands for
\* what Number() makes of a text that is no number.
NaN == -999
RequestNumbers == {NaN, -1, 0, 1, LowPoints}
RequestPoints == UNION { [1..n -> RequestNumbers] : n \in 1..NumProblems }

\* Number(p.points) || 100
PointsOrDefault(v) == IF v = NaN \/ v = 0 THEN DefaultPoints ELSE v

\* req.body.problems.map(p => ({problem, points}))
FormattedProblems(pts) ==
  [i \in DOMAIN pts |-> [problem |-> i, points |-> PointsOrDefault(pts[i])]]

\* POST / (create contest): duration: Number(req.body.duration); the schema
\* casts a Number and has no validator on it, save() rejects NaN only.
CreateContest(d, pts) ==
  IF d = NaN THEN
    /\ resp' = Answer("create", 0, 500)
    /\ UNCHANGED <<contest, participants, studentVars, joined>>
  ELSE
    /\ contest' = [startTime |-> ContestStart, duration |-> d,
                   isPublished |-> FALSE, problems |-> FormattedProblems(pts)]
    /\ participants' = <<>>
    /\ registeredStudents' = <<>>
    /\ activeParticipants' = <<>>
    /\ joined' = <<>>
    /\ resp' = Answer("create", 0, 201)

\* PUT /:id with duration and problems in the body
UpdateContestProblems(d, pts) ==
  IF d = NaN THEN
    /\ resp' = Answer("update", 0, 500)
    /\ UNCHANGED contest
  ELSE
    /\ contest' = [contest EXCEPT !.duration = d,
                                  !.problems = FormattedProblems(pts)]
    /\ resp' = Answer("update", 0, 200)

Create ==
  /\ \E d \in RequestNumbers, pts \in RequestPoints : CreateContest(d, pts)
  /\ UNCHANGED <<now, assignment, aux>>

UpdateProblems ==
  /\ \E d \in RequestNumbers, pts \in RequestPoints : UpdateContestProblems(d, pts)
  /\ UNCHANGED <<now, participants, studentVars, joined, assignment, aux>>

ValuesNext ==
  \/ Create
  \/ UpdateProblems

SpecValues == InitDraft /\ [][ValuesNext]_vars

\* The /student/contests/... handlers from registration to the state view.
StudentNext ==
  \/ Register
  \/ StartRegisteredStep
  \/ Run
  \/ Save
  \/ State

SpecStudent == InitRecord /\ [][StudentNext]_vars

\* The two submit handlers that are reached: the contest's and the
\* assignment's.
SubmitNext ==
  \/ Clock
  \/ Start
  \/ Submit
  \/ SubmitToAssignment

SpecSubmit == Init /\ [][SubmitNext]_vars

\* ------------------------------------------------- assignment progress
\* GET /:id/submissions: problemsCompleted, totalProblems and
\* score: Math.round((problemsCompleted / totalProblems) * 100)
ProblemsCompleted(s) == Cardinality(SolvedProblems(s))
TotalProblems == Cardinality(assignment.problems)
Score(s) == (2 * 100 * ProblemsCompleted(s) + TotalProblems) \div (2 * TotalProblems)

\* an assignment over some of the problems of the Problem collection
InitAssigned ==
  /\ now = 1
  /\ participants = <<>>
  /\ registeredStudents = <<>>
  /\ activeParticipants = <<>>
  /\ joined = <<>>
  /\ script = [s \in Students |-> 0]
  /\ inflight = [r \in Slots |-> Idle]
  /\ twin = NoTwin
  /\ Submission = <<>>
  /\ deleted = {}
  /\ resp = Answer("none", 0, 0)
  /\ contest \in ContestDocs(1)
  /\ cmpRows = <<>>
  /\ \E P \in (SUBSET ProblemIds) \ {{}} :
       assignment = [AssignmentDoc EXCEPT !.problems = P]

AssignedNext ==
  \/ Clock
  \/ SubmitToAssignment
  \/ AssignmentProgress

SpecAssigned == InitAssigned /\ [][AssignedNext]_vars

\* ------------------------------------------------ where PASSED comes from
\* POST /assignment/:assignmentId/problem/:problemId (routes/submissionRoutes.js):
\* new Submission({..., status}) with the status of the request body
SaveSubmission(s, aid, pid, status) ==
  /\ Submission' = Append(Submission,
       [student |-> s, assignment |-> aid, problemId |-> pid,
        status |-> status, submittedAt |-> now])
  /\ resp' = Answer("saveSubmission", s, 200)

\* every record kept anywhere, which MaxSubmissions caps
AllRecords == KeptRecords + ParticipantRecords
                + SumSeq([i \in DOMAIN activeParticipants |->
                            Len(activeParticipants[i].submissions)])

StoreClaimed ==
  /\ AllRecords < MaxSubmissions
  /\ \E s \in Students, pid \in ProblemIds, st \in Statuses :
       StoreSubmission(s, AssignmentId, pid, st)
  /\ UNCHANGED <<now, contest, participants, studentVars, joined, assignment,
                 script, cmpRows, inflight, twin, deleted>>

SaveClaimed ==
  /\ AllRecords < MaxSubmissions
  /\ \E s \in Students, pid \in ProblemIds, st \in Statuses :
       SaveSubmission(s, AssignmentId, pid, st)
  /\ UNCHANGED <<now, contest, participants, studentVars, joined, assignment,
                 script, cmpRows, inflight, twin, deleted>>

CompleteUnjudged ==
  /\ AllRecords < MaxSubmissions
  /\ \E s \in Students, pid \in ProblemIds : CompleteProblem(s, pid)
  /\ UNCHANGED notContest

SubmitVerdict ==
  /\ AllRecords < MaxSubmissions
  /\ \E s \in Students, pid \in ProblemIds, v \in JudgeVerdicts :
       SubmitAssignmentJudged(s, pid, v)
  /\ UNCHANGED notAssignment

RunVerdict ==
  /\ AllRecords < MaxSubmissions
  /\ \E s \in Students, pid \in ProblemIds, v \in JudgeVerdicts :
       RunCodeJudged(s, pid, v)
  /\ UNCHANGED notStudent

VerdictNext ==
  \/ Clock
  \/ Start
  \/ Submit
  \/ CompleteUnjudged
  \/ StoreClaimed
  \/ SaveClaimed
  \/ SubmitVerdict
  \/ RunVerdict

SpecVerdict == InitRecord /\ [][VerdictNext]_vars

\* PUT /:id that keeps the duration and gives the problems new points
NewPoints == {1, LowPoints}
Reprice ==
  /\ \E pts \in [DOMAIN contest.problems -> NewPoints] :
       UpdateContestProblems(contest.duration, pts)
  /\ UNCHANGED <<now, participants, studentVars, joined, assignment, aux>>

CompleteCapped ==
  /\ ParticipantRecords < MaxSubmissions
  /\ \E s \in Students, pid \in ProblemIds : CompleteProblem(s, pid)
  /\ UNCHANGED notContest

\* Start, the two mark-complete handlers and the update of the contest.
TotalsNext ==
  \/ Clock
  \/ Start
  \/ CompleteCapped
  \/ CompleteOlder
  \/ Reprice

SpecTotals == Init /\ [][TotalsNext]_vars

\* C11: a register, start or join request issued before the contest's
\* scheduled start is answered with an error and adds no Enrollment to any
\* list.
C11_Step ==
  \A s \in Students :
    (/\ now < contest.startTime
     /\ \/ RegisterStudent(s)
        \/ StartContest(s)
        \/ JoinContest(s))
    => /\ resp'.status >= 400
       /\ registeredStudents' = registeredStudents
       /\ participants' = participants
       /\ joined' = joined

C11_NotYetOpenRejected == [][C11_Step]_vars

\* C12: a step that adds an Enrollment to a list (register, join, or the
\* complete handler that adds the participant) is taken only while the
\* contest is Upcoming or Active.
C12_Step ==
  (\/ Len(registeredStudents') > Len(registeredStudents)
   \/ Len(joined') > Len(joined)
   \/ Len(participants') > Len(participants))
  => GetContestStatus \in {"Upcoming", "Active"}

C12_EnrolOnlyWhenOpen == [][C12_Step]_vars

\* C13: once startedAt / startTime of an Enrollment is set no step changes
\* it, and a start request of a student whose Enrollment already has it set
\* is answered with success and leaves the lists as they were.
C13_Kept ==
  /\ \A i \in DOMAIN registeredStudents :
       registeredStudents[i].startedAt # NullDate
         => /\ i \in DOMAIN registeredStudents'
            /\ registeredStudents'[i].startedAt = registeredStudents[i].startedAt
  /\ \A i \in DOMAIN participants :
       /\ i \in DOMAIN participants'
       /\ participants'[i].startTime = participants[i].startTime

C13_RepeatSucceeds ==
  \A s \in Students :
    /\ (/\ FindRegistered(s) # 0
        /\ registeredStudents[FindRegistered(s)].startedAt # NullDate
        /\ StartRegistered(s))
       => /\ resp'.status = 200
          /\ registeredStudents' = registeredStudents
    /\ (/\ FindParticipant(s) # 0
        /\ now <= contest.startTime + contest.duration
        /\ StartContest(s))
       => /\ resp'.status = 200
          /\ participants' = participants

C13_StartOnce == [][C13_Kept /\ C13_RepeatSucceeds]_vars

\* C14: a start request issued while the contest is not Active (unpublished,
\* before the scheduled start or after the scheduled end) is answered with an
\* error and sets no startedAt / startTime.
C14_Step ==
  \A s \in Students :
    (/\ GetContestStatus # "Active"
     /\ \/ StartRegistered(s)
        \/ StartContest(s))
    => /\ resp'.status >= 400
       /\ registeredStudents' = registeredStudents
       /\ participants' = participants

C14_StartOnlyWhenActive == [][C14_Step]_vars

\* C15: the status computed on a read is one of Draft, Upcoming, Active,
\* Completed: Draft iff the contest is unpublished, otherwise Upcoming iff
\* now < startTime, Completed iff now > startTime + duration, and Active
\* otherwise; both listings report it; and while the contest stays published
\* with the same startTime and duration the status never moves backward.
StatusRank(st) ==
  IF st = "Upcoming" THEN 1 ELSE IF st = "Active" THEN 2
  ELSE IF st = "Completed" THEN 3 ELSE 0

C15_AsSpecified ==
  LET st == GetContestStatus
      end == contest.startTime + contest.duration
  IN
  /\ st \in {"Draft", "Upcoming", "Active", "Completed"}
  /\ (st = "Draft") <=> ~contest.isPublished
  /\ contest.isPublished =>
       /\ (st = "Upcoming") <=> (now < contest.startTime)
       /\ (st = "Completed") <=> (now > end)
       /\ (st = "Active") <=> (contest.startTime <= now /\ now <= end)

C15_Reported ==
  /\ GetFacultyContests => resp'.shown = GetContestStatus
  /\ (GetStudentContests /\ contest.isPublished) => resp'.shown = GetContestStatus

C15_Forward ==
  (/\ contest.isPublished
   /\ contest'.isPublished
   /\ contest'.startTime = contest.startTime
   /\ contest'.duration = contest.duration)
  => StatusRank(GetContestStatus') >= StatusRank(GetContestStatus)

StudentRecords(s) ==
  (IF FindRegistered(s) = 0 THEN <<>>
   ELSE registeredStudents[FindRegistered(s)].submissions)
  \o (IF FindActive(s) = 0 THEN <<>>
      ELSE activeParticipants[FindActive(s)].submissions)

EffectiveStatus(recs, pid) ==
  LET of == { k \in DOMAIN recs : recs[k].problemId = pid } IN
  IF \E k \in of : recs[k].status = "PASSED" THEN "PASSED"
  ELSE IF of # {} THEN recs[CHOOSE k \in of : \A j \in of : j <= k].status
  ELSE "NOT_ATTEMPTED"

MaxTimestamp(S) ==
  IF S = {} THEN NullDate ELSE CHOOSE x \in S : \A y \in S : y <= x

AssignmentTimestamps(s) ==
  { assignment.submissions[k].submittedAt :
      k \in { j \in DOMAIN assignment.submissions : assignment.submissions[j].student = s } }

C18_LastSubmissionIsMax ==
  /\ \A s \in Students :
       AssignmentLastSubmission(s) = MaxTimestamp(AssignmentTimestamps(s))
  /\ \A k \in DOMAIN LeaderboardComputed :
       \E i \in DOMAIN participants :
         /\ participants[i].student = LeaderboardComputed[k].student
         /\ LeaderboardComputed[k].lastSubmission =
              MaxTimestamp({ participants[i].submissions[j].submittedAt :
                               j \in DOMAIN participants[i].submissions })

\* C19: every leaderboard result is in the order of its comparator and gives
\* each of its N rows a rank, the ranks being 1..N in that order.
C19_RanksAreOneToN ==
  resp.op = "rank" =>
    /\ Len(resp.shown) = Len(cmpRows)
    /\ \A i, j \in DOMAIN resp.shown :
         i < j => Compare(resp.kind, resp.shown[i], resp.shown[j]) <= 0
    /\ \A k \in DOMAIN resp.shown :
         /\ "rank" \in DOMAIN resp.shown[k]
         /\ resp.shown[k].rank = k

\* C20: two requests of the same student that overlap leave what some order
\* of the two, one after the other, leaves: a student has one
\* registeredStudents entry, no problem is twice in completedProblems, and once
\* no request is under way totalPoints is the sum of the points of the
\* completed problems.
CompletedPoints(p) ==
  SumSeq([j \in DOMAIN p.completedProblems |->
            contest.problems[FindContestProblem(p.completedProblems[j])].points])

C20_Serialisable ==
  /\ \A s \in Students :
       Cardinality({i \in DOMAIN registeredStudents :
                      registeredStudents[i].student = s}) <= 1
  /\ \A i \in DOMAIN participants :
       /\ \A j, k \in DOMAIN participants[i].completedProblems :
            j # k => participants[i].completedProblems[j] # participants[i].completedProblems[k]
       /\ (\A r \in Slots : inflight[r] = Idle)
            => participants[i].totalPoints = CompletedPoints(participants[i])

\* C21: what a student is shown of two problems that differ only in the
\* input and output of hidden test cases is the same whenever the test cases
\* pass and fail alike: the problem view always, the results of a run and of
\* a submission when their pass/fail bits agree.
C21_HiddenNotEchoed ==
  (twin.op # "none" /\ twin.passed[1] = twin.passed[2])
    => twin.shown[1] = twin.shown[2]

\* C22: a submission or run whose judge call failed or timed out is not
\* answered as a success and stores no record with status FAILED.
FailedRecords ==
  Cardinality({k \in DOMAIN assignment.submissions :
                 assignment.submissions[k].status = "FAILED"})

C22_Step ==
  ("judge" \in DOMAIN resp' /\ resp'.judge = "down")
    => /\ resp'.status # 200
       /\ FailedRecords' = FailedRecords
       /\ activeParticipants' = activeParticipants

C22_JudgeFailureIsNotFailed == [][C22_Step]_vars

\* C23: every kept record belongs to a stored contest or assignment: a deleted
\* assignment has no record left, embedded or in the Submission collection, a
\* deleted contest has no registration left, every Submission document names
\* the stored assignment, and only a deletion makes the records fewer.
C23_Owned ==
  /\ \A k \in DOMAIN Submission :
       /\ Submission[k].assignment = AssignmentId
       /\ "assignment" \notin deleted
  /\ "assignment" \in deleted => assignment.submissions = <<>>
  /\ "contest" \in deleted => registeredStudents = <<>>

C23_Step ==
  \/ deleted' # deleted
  \/ /\ Len(Submission') >= Len(Submission)
     /\ Len(assignment'.submissions) >= Len(assignment.submissions)
     /\ Len(registeredStudents') >= Len(registeredStudents)

C23_RecordsHaveParent == [](C23_Owned) /\ [][C23_Step]_vars

\* C24: the stored contest has a duration above zero and no problem with
\* points below zero, whatever values create and update requests held.
C24_ValuesInRange ==
  /\ contest.duration > 0
  /\ \A i \in DOMAIN contest.problems : contest.problems[i].points >= 0

\* C25: a run or save-code request of a student who is not registered or has
\* not started is not answered 200 with nothing stored, and a run whose test
\* cases all pass is not answered 200 unless the student then has a PASSED
\* record of the problem.
HasStarted(s) ==
  /\ FindRegistered(s) # 0
  /\ registeredStudents[FindRegistered(s)].startedAt # NullDate

C25_Step ==
  \A s \in Students, pid \in ProblemIds :
    /\ (/\ ~HasStarted(s)
        /\ \/ SaveCode(s, pid)
           \/ \E ok \in BOOLEAN : RunCode(s, pid, ok))
       => ~(resp'.status = 200 /\ studentVars' = studentVars)
    /\ (RunCode(s, pid, TRUE) /\ resp'.status = 200)
       => \E i \in DOMAIN activeParticipants' :
            /\ activeParticipants'[i].student = s
            /\ \E k \in DOMAIN activeParticipants'[i].submissions :
                 /\ activeParticipants'[i].submissions[k].problemId = pid
                 /\ activeParticipants'[i].submissions[k].status = "PASSED"

C25_NoSilentSuccess == [][C25_Step]_vars

\* C30: for a student who has registered and started, a save-code request is
\* answered 200, and after a run of a contest problem whose test cases all
\* pass the state view shows PASSED for that problem.
C30_Step ==
  \A s \in Students, pid \in ProblemIds :
    (HasStarted(s) /\ FindContestProblem(pid) # 0)
      => /\ SaveCode(s, pid) => resp'.status = 200
         /\ RunCode(s, pid, TRUE) => StateStatus(s, pid)' = "PASSED"

C30_StartedCanProgress == [][C30_Step]_vars

\* C26: a submit of an enrolled student inside the student's window for a
\* problem of the contest, and a submit for a problem of the assignment, is
\* answered 200 and makes the student's records exactly one more.
C26_Step ==
  /\ \A s \in Students, pid \in ProblemIds, st \in Statuses :
       LET i == FindParticipant(s) IN
       (/\ i # 0
        /\ now <= PersonalEnd(participants[i])
        /\ FindContestProblem(pid) # 0
        /\ SubmitSolution(s, pid, st))
       => /\ resp'.status = 200
          /\ Len(participants'[i].submissions) = Len(participants[i].submissions) + 1
  /\ \A s \in Students, pid \in assignment.problems, ok \in BOOLEAN :
       SubmitAssignment(s, pid, ok)
       => /\ resp'.status = 200
          /\ Len(assignment'.submissions) = Len(assignment.submissions) + 1

C26_OneRecordPerSubmit == [][C26_Step]_vars

\* C29: the problems counted as solved by a student are problems of the
\* assignment, so problemsCompleted is at most totalProblems and the score is
\* at most 100.
C29_SolvedWithinAssignment ==
  \A s \in Students :
    /\ SolvedProblems(s) \subseteq assignment.problems
    /\ ProblemsCompleted(s) <= TotalProblems
    /\ Score(s) <= 100

\* C27: the number of PASSED records and of completed problems grows only in
\* a request in which the judge ran and every test case passed.
PassedIn(recs) == Cardinality({k \in DOMAIN recs : recs[k].status = "PASSED"})

PassedTotal ==
  PassedIn(Submission) + PassedIn(assignment.submissions)
    + SumSeq([i \in DOMAIN participants |->
                PassedIn(participants[i].submissions)
                  + Len(participants[i].completedProblems)])
    + SumSeq([i \in DOMAIN activeParticipants |->
                PassedIn(activeParticipants[i].submissions)])

C27_Step ==
  PassedTotal' > PassedTotal
    => ("judge" \in DOMAIN resp' /\ resp'.judge = "pass")

C27_PassedOnlyFromJudge == [][C27_Step]_vars

\* C28: the totalPoints stored for a participant is the sum, over the
\* participant's completedProblems, of the points the contest gives them.
C28_TotalIsSumOfCompleted ==
  \A i \in DOMAIN participants :
    participants[i].totalPoints =
      SumSeq([j \in DOMAIN participants[i].completedProblems |->
                ContestPoints(participants[i].completedProblems[j])])
====
